---- MODULE Spec2Model ----
(***************************************************************************)
(* Model of the Vikunja MCP server's API client (src/client/               *)
(* vikunja_client.py), of the server lifespan that owns it (src/server.py),*)
(* of credential resolution (src/utils/openbao_secrets.py), of the tool    *)
(* handlers (src/tools/) and of pagination (src/utils/pagination.py).      *)
(*                                                                         *)
(* The client runs under asyncio: the code between two awaits of one       *)
(* coroutine is one atomic step.  request() suspends while an HTTP attempt *)
(* is in flight and during a backoff sleep; close() suspends inside        *)
(* aclose().  _get_client() holds no await that suspends, so it runs       *)
(* inside the step that calls it.                                          *)
(***************************************************************************)
EXTENDS Integers, Sequences, FiniteSets, TLC

\* ------------------------------------------------------------------ bounds
\* Number of coroutines that call the client concurrently.
NumTasks == 2
\* Number of connection objects (httpx.AsyncClient) the client may create.
MaxConns == 2
\* Pagination: the longest list of items, the largest total, limit and offset.
MaxItems == 3
MaxTotal == 5
MaxLimit == 3
MaxOffset == 4
MaxCalls == 3

\* --------------------------------------------------------------- constants
MAX_RETRIES_off_by_one == 3 + 1
MAX_RETRIES == 3
RETRY_DELAY == 1

None == 0
\* Caller 0 is the lifespan coroutine of server.py; 1..NumTasks are callers
\* of the client (tool handlers, tests).
Lifespan == 0
Tasks == 1..NumTasks
Callers == {Lifespan} \cup Tasks
ConnIds == 1..MaxConns

\* ------------------------------------------------------- the remote server
\* Response bodies as text, and what response.json() makes of them.
ObjectText == "{\"id\": 1, \"title\": \"Test Task\"}"
ArrayText == "[]"
EmptyText == ""
RawBodies == {ObjectText, ArrayText, EmptyText}

NoJson == [type |-> "none", members |-> <<>>]
JSONDecodeError == [type |-> "JSONDecodeError", members |-> <<>>]

json_wrapped(raw) ==
    CASE raw = ObjectText ->
           [type |-> "object",
            members |-> << <<"data", "{id: 1, title: Test Task}">> >>]
      [] raw = ArrayText -> [type |-> "object", members |-> << <<"data", "[]">> >>]
      [] OTHER -> JSONDecodeError

\* response.json(): the parsed value of a body, or the decode error.
json(raw) ==
    CASE raw = ObjectText ->
           [type |-> "object",
            members |-> << <<"id", "1">>, <<"title", "Test Task">> >>]
      [] raw = ArrayText -> [type |-> "array", members |-> <<>>]
      [] OTHER -> JSONDecodeError

SuccessStatuses == {200}
ErrorStatuses == {400, 401, 403, 404, 422, 429, 500, 503}

\* What one HTTP attempt can come back with: a response, or a transport
\* failure (httpx.TimeoutException, httpx.ConnectError).
Outcomes ==
    {[kind |-> "response", status |-> s, body |-> b] :
        s \in SuccessStatuses, b \in RawBodies}
    \cup {[kind |-> "response", status |-> s, body |-> EmptyText] :
            s \in ErrorStatuses}
    \cup {[kind |-> k, status |-> 0, body |-> EmptyText] :
            k \in {"TimeoutException", "ConnectError"}}

\* The attempt that httpx refuses because the AsyncClient is closed.
ClosedOutcome == [kind |-> "closed", status |-> 0, body |-> EmptyText]
NoOutcome == [kind |-> "none", status |-> 0, body |-> EmptyText]

\* response.raise_for_status() raises HTTPStatusError.
is_error(o) == o.kind = "response" /\ ~(o.status >= 200 /\ o.status < 300)

\* ------------------------------------------------------------------- state
VARIABLES
    constructed,    \* VikunjaClient.__init__ has returned
    _client,        \* self._client: None or a connection
    nConns,         \* httpx.AsyncClient objects created so far (ids 1..nConns)
    connClosed,     \* connections whose aclose() has been called
    acloseCalls,    \* per connection, the number of aclose() calls
    pc,             \* per caller: idle, inflight, sleep, closing, done
    op,             \* per caller: the client method it is in
    attempt,        \* per caller: the loop index of request()
    local,          \* per caller: request()'s local variable `client`
    last,           \* per caller: the response or exception request() is handling
    result,         \* per caller: what the finished call returned or raised
    lpc,            \* where the server lifespan is ("direct": no lifespan)
    tracing,        \* history: whether calls are logged in this behaviour
    log,            \* history, per caller: the attempts completed and the
                    \* sleeps started by the running call, in order
    env,            \* the process's surroundings: agent, config file, environ
    cred,           \* the client's credential fields and the last credential call
    tool,           \* per caller: the tool handler it runs
    page,           \* the last call of build_pagination_response
    err,            \* the last call of handle_api_error
    cache,          \* the lru_cache of is_agent_available, and its calls
    server          \* the Vikunja server: the reminders it stores for task
                    \* 123, and the number of tasks it holds

clientVars == <<constructed, _client, nConns, connClosed, acloseCalls>>
\* What no method of the client writes.
restVars == <<err, cache, server>>
auxVars == <<page, restVars>>
otherVars == <<tracing, env, cred, tool, auxVars>>
taskVars == <<pc, op, attempt, local, last, result, log, otherVars>>
vars == <<constructed, _client, nConns, connClosed, acloseCalls,
          pc, op, attempt, local, last, result, lpc, tracing, log,
          env, cred, tool, page, err, cache, server>>

\* What a call ends with. Of an exception: its type's name, the status of an
\* HTTPStatusError, and those of the words "openbao", "token" and "agent"
\* that str(e).lower() holds.
NoResult ==
    [kind |-> "none", exc |-> "", status |-> 0, value |-> NoJson, text |-> {}]
Returned(v) ==
    [kind |-> "return", exc |-> "", status |-> 0, value |-> v, text |-> {}]
Raised(e, s) ==
    [kind |-> "raise", exc |-> e, status |-> s, value |-> NoJson, text |-> {}]

AttemptEvent(o) == [ev |-> "attempt", out |-> o, delay |-> 0]
SleepEvent(d) == [ev |-> "sleep", out |-> NoOutcome, delay |-> d]

RECURSIVE Pow2(_)
Pow2(n) == IF n = 0 THEN 1 ELSE 2 * Pow2(n - 1)

\* ------------------------------------------------------------ credentials
\* A text (a Python str) is a sequence of pieces; "/" is the slash.  Missing
\* stands for an absent dict key and for None.
Missing == <<"<missing>">>

\* Python truthiness of a str or None.
truthy(v) == v # Missing /\ v # <<>>

rstrip_once(s, ch) ==
    IF s # <<>> /\ s[Len(s)] = ch THEN SubSeq(s, 1, Len(s) - 1) ELSE s

\* str.rstrip(ch): every trailing ch is removed.
RECURSIVE rstrip(_, _)
rstrip(s, ch) ==
    IF s # <<>> /\ s[Len(s)] = ch THEN rstrip(SubSeq(s, 1, Len(s) - 1), ch) ELSE s

\* A dict over the keys the code reads; a key the dict lacks holds Missing.
dict(u, t, vu, vt) == [url |-> u, token |-> t, vikunja_url |-> vu, vikunja_token |-> vt]
EmptyDict == dict(Missing, Missing, Missing, Missing)
has_key(d, k) == d[k] # Missing
\* d.get(k, default)
dict_get(d, k, default) == IF has_key(d, k) THEN d[k] ELSE default

\* The secrets the agent may hold at the service's path: both fields, one
\* of them, none.
AgentSecrets ==
    { dict(u, t, Missing, Missing) :
        u \in {Missing, <<"agent-url">>}, t \in {Missing, <<"agent-token">>} }

\* What the agent answers to the read of the secret: a status with the
\* secret's data, or the connection fails, or the read times out.
AgentReplies ==
    { [kind |-> "response", status |-> 200, secret |-> d] : d \in AgentSecrets }
    \cup { [kind |-> "response", status |-> st, secret |-> EmptyDict] : st \in {403, 404} }
    \cup { [kind |-> k, status |-> 0, secret |-> EmptyDict] :
             k \in {"ConnectError", "TimeoutException"} }

\* ~/.config/vikunja-mcp/config.json: absent, not JSON, a JSON array, or a
\* JSON object under either of the two key schemas.
ConfigFiles ==
    { [exists |-> FALSE, json |-> "none", data |-> EmptyDict],
      [exists |-> TRUE, json |-> "invalid", data |-> EmptyDict],
      [exists |-> TRUE, json |-> "array", data |-> EmptyDict],
      [exists |-> TRUE, json |-> "object",
       data |-> dict(<<"file-url">>, <<"file-token">>, Missing, Missing)],
      [exists |-> TRUE, json |-> "object",
       data |-> dict(Missing, Missing, <<"file-url", "/">>, <<"file-token">>)],
      [exists |-> TRUE, json |-> "object",
       data |-> dict(<<"file-url">>, Missing, Missing, Missing)],
      [exists |-> TRUE, json |-> "object",
       data |-> dict(Missing, <<"file-token">>, Missing, Missing)] }

\* os.environ: a variable that is not set holds Missing.
Environs ==
    { [VIKUNJA_URL |-> u, VIKUNJA_TOKEN |-> t] :
        u \in {Missing, <<"env-url">>, <<"env-url", "/", "/">>, <<"/">>},
        t \in {Missing, <<"env-token">>} }

Envs ==
    [OPENBAO_AVAILABLE : BOOLEAN, DEV_MODE : BOOLEAN, healthy : BOOLEAN,
     reply : AgentReplies, file : ConfigFiles, environ : Environs]

\* The result of a credential call.
CredNone == [kind |-> "none", exc |-> "", names |-> {}, value |-> Missing,
             config |-> EmptyDict, source |-> ""]
CredValue(v) == [CredNone EXCEPT !.kind = "return", !.value = v]
CredConfig(d, src) == [CredNone EXCEPT !.kind = "return", !.config = d, !.source = src]
CredRaise(e, n) == [CredNone EXCEPT !.kind = "raise", !.exc = e, !.names = n]

\* OpenBaoError and its subclasses.
IsOpenBaoError(e) == e \in {"OpenBaoError", "AgentNotRunningError", "SecretNotFoundError"}

\* os.getenv(name)
getenv(name) == env.environ[name]

\* check_agent_health(): whether the agent answers its health endpoint now.
check_agent_health == env.healthy

is_agent_available_uncached == check_agent_health

\* @lru_cache(maxsize=1) is_agent_available(): the cached value when there is
\* one, else check_agent_health().
is_agent_available == IF cache.filled THEN cache.value ELSE check_agent_health

\* The cache after a call of is_agent_available(); calls and seen are
\* history: the number of calls, and the agent's health at the last call.
NoCache == [filled |-> FALSE, value |-> FALSE, calls |-> 0, seen |-> FALSE]
cache_after_call ==
    [filled |-> TRUE, value |-> is_agent_available, calls |-> cache.calls + 1,
     seen |-> check_agent_health]

\* get_secret(path, key); key "" is the call without a key.
get_secret(key) ==
    LET r == env.reply IN
    IF r.kind = "ConnectError" THEN CredRaise("AgentNotRunningError", {})
    ELSE IF r.kind = "TimeoutException" THEN CredRaise("TimeoutException", {})
    ELSE IF r.status = 404 THEN CredRaise("SecretNotFoundError", {})
    ELSE IF r.status # 200 THEN CredRaise("OpenBaoError", {})
    ELSE IF key # ""
         THEN IF ~has_key(r.secret, key)
              THEN CredRaise("SecretNotFoundError", {})
              ELSE CredValue(r.secret[key])
         ELSE CredConfig(r.secret, "")

dev_fallback_ungated(passed) == passed

\* `if DEV_MODE and dev_fallback`
dev_fallback_allowed(passed) == env.DEV_MODE /\ passed

\* get_mcp_token(service, dev_fallback, required); dev_fallback "" is None.
get_mcp_token(dev_fallback, required) ==
    LET r == get_secret("token") IN
    IF r.kind = "return" \/ ~IsOpenBaoError(r.exc) THEN r
    ELSE IF dev_fallback_allowed(dev_fallback # "") /\ truthy(getenv(dev_fallback))
    THEN CredValue(getenv(dev_fallback))
    ELSE IF r.exc = "AgentNotRunningError"
    THEN IF required THEN CredRaise("AgentNotRunningError", {}) ELSE CredValue(Missing)
    ELSE IF required THEN CredRaise("ValueError", {}) ELSE CredValue(Missing)

\* The dict get_mcp_config builds from the environment: only the variables
\* that hold a value.
env_config ==
    dict(IF truthy(getenv("VIKUNJA_URL")) THEN getenv("VIKUNJA_URL") ELSE Missing,
         IF truthy(getenv("VIKUNJA_TOKEN")) THEN getenv("VIKUNJA_TOKEN") ELSE Missing,
         Missing, Missing)

\* get_mcp_config(service, dev_fallbacks); passed: dev_fallbacks was given
\* as {"token": "VIKUNJA_TOKEN", "url": "VIKUNJA_URL"}.
get_mcp_config(passed) ==
    LET r == get_secret("") IN
    IF r.kind = "return" \/ ~IsOpenBaoError(r.exc) THEN r
    ELSE IF dev_fallback_allowed(passed) /\ env_config # EmptyDict
    THEN CredConfig(env_config, "")
    ELSE r

\* DeferredCredentialLoader(service, "token", dev_fallback) and its load()
\* on a loader in state ld; the loader's next state goes with the result.
\* dev_fallback is fixed when the loader is built; "" is None.
NoLoader == [built |-> FALSE, dev_fallback |-> "", _loaded |-> FALSE,
             _cached_value |-> Missing, _source |-> ""]
FreshLoader(f) == [NoLoader EXCEPT !.built = TRUE, !.dev_fallback = f]
Loaded(ld, v, src) == [ld EXCEPT !._loaded = TRUE, !._cached_value = v, !._source = src]

load(ld) ==
    LET r == get_secret("token")
        dev_fallback == ld.dev_fallback
    IN
    IF ld._loaded /\ truthy(ld._cached_value)
    THEN [out |-> CredValue(ld._cached_value), loader |-> ld]
    ELSE IF r.kind = "return"
    THEN [out |-> r, loader |-> Loaded(ld, r.value, "SOURCE_OPENBAO")]
    ELSE IF ~IsOpenBaoError(r.exc)
    THEN [out |-> r, loader |-> ld]
    ELSE IF dev_fallback_allowed(dev_fallback # "") /\ truthy(getenv(dev_fallback))
    THEN [out |-> CredValue(getenv(dev_fallback)),
          loader |-> Loaded(ld, getenv(dev_fallback), "SOURCE_ENV")]
    ELSE [out |-> r, loader |-> ld]

\* `config_data.get("url") or config_data.get("vikunja_url", "")`
file_value(d, k, alias) == IF truthy(d[k]) THEN d[k] ELSE dict_get(d, alias, <<>>)
file_url == file_value(env.file.data, "url", "vikunja_url")
file_token == file_value(env.file.data, "token", "vikunja_token")

\* The environment branch of _load_config.
environment_config ==
    CredConfig(dict(dict_get(env.environ, "VIKUNJA_URL", <<>>),
                    dict_get(env.environ, "VIKUNJA_TOKEN", <<>>), Missing, Missing),
               "environment")

\* The config file branch of _load_config and what follows it.
file_config ==
    IF ~env.file.exists \/ env.file.json = "invalid" THEN environment_config
    ELSE IF env.file.json = "array" THEN CredRaise("AttributeError", {})
    ELSE IF truthy(file_url) /\ truthy(file_token)
    THEN CredConfig(dict(file_url, file_token, Missing, Missing), "config file")
    ELSE environment_config

\* `if OPENBAO_AVAILABLE: ... if is_agent_available():`
agent_consulted == env.OPENBAO_AVAILABLE /\ is_agent_available

\* VikunjaClient._load_config(): whatever get_mcp_config returns is taken
\* as the "openbao" configuration; `except Exception: pass` leaves every
\* failure of the agent branch to the config file.
_load_config ==
    IF agent_consulted
    THEN LET r == get_mcp_config(TRUE) IN
         IF r.kind = "return" THEN CredConfig(r.config, "openbao") ELSE file_config
    ELSE file_config

\* `if not self.base_url`, `if not self.token`
url_check_skipped(b) == FALSE
url_missing(b) == b = <<>>
token_missing(t) == t = <<>>

\* The names the two ValueError messages of __init__ show.
url_message == {"CONFIG_FILE_PATH", "VIKUNJA_URL"}
token_message_names_url == {"CONFIG_FILE_PATH", "VIKUNJA_URL"}
token_message == {"CONFIG_FILE_PATH", "VIKUNJA_TOKEN"}

API_VERSION == <<"v1">>

\* __init__ up to `self._client = None`: the fields of the client, or the
\* exception that leaves the constructor.
NoFields == [base_url |-> <<>>, token |-> <<>>, api_base |-> <<>>, credential_source |-> ""]

init_fields ==
    LET lc == _load_config
        b == rstrip(dict_get(lc.config, "url", <<>>), "/")
        t == dict_get(lc.config, "token", <<>>)
    IN  IF lc.kind = "raise" THEN [out |-> lc, fields |-> NoFields]
        ELSE IF url_missing(b)
        THEN [out |-> CredRaise("ValueError", url_message), fields |-> NoFields]
        ELSE IF token_missing(t)
        THEN [out |-> CredRaise("ValueError", token_message), fields |-> NoFields]
        ELSE [out |-> CredConfig(lc.config, lc.source),
              fields |-> [base_url |-> b, token |-> t,
                          api_base |-> b \o <<"/", "api", "/">> \o API_VERSION,
                          credential_source |-> lc.source]]

\* cred: the client's fields, the credential call made last with its
\* result, and the DeferredCredentialLoader of the process.
NoCred == [fields |-> NoFields, call |-> "none", passed |-> FALSE, required |-> FALSE,
           out |-> CredNone, loader |-> NoLoader, branch |-> "none"]

\* The side of `if is_agent_available():` that _load_config took.
branch_of(available) == IF available THEN "agent" ELSE "no-agent"

\* The surroundings of a process whose credential resolution is not looked
\* at: the agent holds the whole secret.
SettledEnv ==
    [OPENBAO_AVAILABLE |-> TRUE, DEV_MODE |-> FALSE, healthy |-> TRUE,
     reply |-> [kind |-> "response", status |-> 200,
                secret |-> dict(<<"agent-url">>, <<"agent-token">>, Missing, Missing)],
     file |-> [exists |-> FALSE, json |-> "none", data |-> EmptyDict],
     environ |-> [VIKUNJA_URL |-> Missing, VIKUNJA_TOKEN |-> Missing]]

\* -------------------------------------------------------------- pagination
\* Optional[int]: None, or an integer.
NoInt == [none |-> TRUE, value |-> 0]
Some(n) == [none |-> FALSE, value |-> n]

has_more_by_limit(offset, count, limit, total) == offset + limit < total

has_more_inclusive(offset, count, limit, total) == offset + count <= total

\* `has_more = (offset + count) < total`
has_more(offset, count, limit, total) == offset + count < total

\* build_pagination_response(items, total, limit, offset)
build_pagination_response(items, total, limit, offset) ==
    LET count == Len(items) IN
    [total |-> total,
     count |-> count,
     limit |-> limit,
     offset |-> offset,
     has_more |-> has_more(offset, count, limit, total),
     next_offset |-> IF has_more(offset, count, limit, total)
                     THEN Some(offset + count) ELSE NoInt]

NoPagination ==
    [total |-> 0, count |-> 0, limit |-> 0, offset |-> 0,
     has_more |-> FALSE, next_offset |-> NoInt]

\* A list of n items.
Items(n) == [i \in 1..n |-> i]

NoPage == [items |-> <<>>, total |-> 0, limit |-> 1, offset |-> 0,
           called |-> FALSE, out |-> NoPagination]

\* ------------------------------------------------------------------- tools
\* A str the tools return is a sequence of pieces.
\* handle_api_error(e) for an exception of type e.exc, with e.status the
\* status of an HTTPStatusError.
status_message(st) ==
    CASE st = 401 -> <<"Error:", "Invalid or expired authentication token.">>
      [] st = 403 -> <<"Error:", "Permission denied.">>
      [] st = 404 -> <<"Error:", "Resource not found.">>
      [] st = 429 -> <<"Error:", "Rate limit exceeded.">>
      [] st = 422 -> <<"Error:", "Invalid request data.">>
      [] st = 500 -> <<"Error:", "Vikunja server error (500).">>
      [] st = 503 -> <<"Error:", "Vikunja service unavailable (503).">>
      [] OTHER -> <<"Error:", "API request failed with status", "status">>

\* The classes of the exceptions a handler can meet, each with the classes
\* it derives from (below Exception).
bases(n) ==
    CASE n = "HTTPStatusError" -> {"HTTPStatusError", "HTTPError"}
      [] n = "TimeoutException" ->
           {"TimeoutException", "TransportError", "RequestError", "HTTPError"}
      [] n = "ReadTimeout" ->
           {"ReadTimeout", "TimeoutException", "TransportError", "RequestError",
            "HTTPError"}
      [] n = "ConnectError" ->
           {"ConnectError", "NetworkError", "TransportError", "RequestError",
            "HTTPError"}
      [] n = "ReadError" ->
           {"ReadError", "NetworkError", "TransportError", "RequestError",
            "HTTPError"}
      [] n = "JSONDecodeError" -> {"JSONDecodeError", "ValueError"}
      [] OTHER -> {n}

isinstance(e, c) == c \in bases(e.exc)

CredentialWords == {"openbao", "token", "agent"}

unexpected_message_bare(e) == <<"Error:", "Unexpected error occurred">>

\* The fallback of handle_api_error.
unexpected_message(e) == <<"Error:", "Unexpected error occurred -", e.exc>>

\* The ValueErrors of the credential functions hold "openbao", "token" or
\* "agent" in their text; the text of a JSONDecodeError that response.json()
\* raises holds none of them.
handle_api_error(e) ==
    IF isinstance(e, "ValueError") /\ e.text \cap CredentialWords # {}
    THEN <<"Error:", "str(e)">>
    ELSE IF isinstance(e, "HTTPStatusError") THEN status_message(e.status)
    ELSE IF isinstance(e, "TimeoutException") THEN <<"Error:", "Request timed out.">>
    ELSE IF isinstance(e, "ConnectError")
    THEN <<"Error:", "Cannot connect to Vikunja server.">>
    ELSE IF isinstance(e, "RequestError")
    THEN <<"Error:", "Network error occurred.", e.exc>>
    ELSE unexpected_message(e)

\* The exceptions handle_api_error is applied to.
ExceptionTypes ==
    {"HTTPStatusError", "TimeoutException", "ReadTimeout", "ConnectError",
     "ReadError", "ValueError", "JSONDecodeError", "AttributeError",
     "RuntimeError", "KeyError", "OpenBaoError"}
Exceptions ==
    {[Raised(n, st) EXCEPT !.text = w] :
        n \in ExceptionTypes \ {"HTTPStatusError"}, st \in {0},
        w \in SUBSET CredentialWords}
    \cup {[Raised("HTTPStatusError", st) EXCEPT !.text = w] :
            st \in ErrorStatuses, w \in SUBSET CredentialWords}

NoErr == [e |-> NoResult, called |-> FALSE, out |-> <<>>]
NoServer == [reminders |-> <<>>, tasks |-> 0]
RestInit == err = NoErr /\ cache = NoCache /\ server = NoServer

caught_http_only(e) == e.exc = "HTTPStatusError"

\* `except Exception as e`: every exception request() raises is caught.
caught(e) == TRUE

\* format_json_response(data): json.dumps of the value.
format_json_response(v) == <<"json", v.type>>

\* A call of _client.request as a handler makes it.
Call(m, e, pg, pp, f, v) ==
    [method |-> m, endpoint |-> e, page |-> pg, per_page |-> pp,
     field |-> f, value |-> v]

\* The parameters of the modelled calls: task 123, project 5, label 10, and
\* the list that holds the one new reminder.
REMINDER_DATE == <<"2025-12-25T09:00:00Z">>

\* d.get(k) on a parsed JSON object: the member's value, or the default.
json_get(v, k, default) ==
    IF \E i \in 1..Len(v.members) : v.members[i][1] = k
    THEN (CHOOSE m \in {v.members[i] : i \in 1..Len(v.members)} : m[1] = k)[2]
    ELSE default

reminder_put_call(task) ==
    Call("PUT", "tasks/123/reminders", 0, 0, "reminder", REMINDER_DATE)

\* vikunja_add_reminder's second request: the task's reminders followed by
\* the new one, sent to the task update endpoint.
\* `updated_reminders = existing_reminders + [new_reminder]`
updated_reminders(task, new) == json_get(task, "reminders", <<>>) \o new

reminder_update_call(task) ==
    Call("POST", "tasks/123", 0, 0, "reminders",
         updated_reminders(task, REMINDER_DATE))

\* `"page": (params.offset // params.limit) + 1`
page_of(offset, limit) == (offset \div limit) + 1

\* The first request of each handler.
first_call(h, limit, offset) ==
    CASE h = "vikunja_create_task" ->
           Call("PUT", "projects/5/tasks", 0, 0, "title", <<"Test">>)
      [] h = "vikunja_list_tasks" ->
           Call("GET", "tasks/all", page_of(offset, limit), limit, "", <<>>)
      [] h = "vikunja_get_project_tasks" ->
           Call("GET", "projects/5/tasks", page_of(offset, limit), limit, "", <<>>)
      [] h = "vikunja_get_tasks_by_label" ->
           Call("GET", "labels/10/tasks", page_of(offset, limit), limit, "", <<>>)
      [] h = "vikunja_add_reminder" ->
           Call("GET", "tasks/123", 0, 0, "", <<>>)
      [] h = "vikunja_delete_label" ->
           Call("DELETE", "labels/10", 0, 0, "", <<>>)

Handlers ==
    {"vikunja_create_task", "vikunja_list_tasks", "vikunja_add_reminder",
     "vikunja_delete_label"}

\* tool[t]: the handler caller t runs, its parameters, the requests it has
\* made, and what it gave back.
ToolIdle ==
    [handler |-> "none", step |-> "none", limit |-> 1, offset |-> 0,
     calls |-> <<>>, raised |-> FALSE, ret |-> <<>>, propagated |-> "",
     pagination |-> NoPagination, answered |-> FALSE, reminders |-> <<>>,
     tasks |-> <<>>]

\* ------------------------------------------------------------ construction
\* What __init__ leaves in self._client.
init_client_eager == nConns + 1

init_client == None

TaskInit ==
    /\ pc = [t \in Callers |-> "idle"]
    /\ op = [t \in Callers |-> "none"]
    /\ attempt = [t \in Callers |-> 0]
    /\ local = [t \in Callers |-> None]
    /\ log = [t \in Callers |-> <<>>]
    /\ last = [t \in Callers |-> NoOutcome]
    /\ result = [t \in Callers |-> NoResult]

ClientInit ==
    /\ constructed = FALSE
    /\ _client = None
    /\ nConns = 0
    /\ connClosed = {}
    /\ acloseCalls = [c \in ConnIds |-> 0]

\* No tool handler runs.
NoTool == [t \in Callers |-> ToolIdle]

\* Specifications of the client alone take construction to succeed and leave
\* credential resolution and the tool handlers out.
OtherInit == env = SettledEnv /\ cred = NoCred /\ tool = NoTool /\ page = NoPage /\ RestInit

Init == ClientInit /\ TaskInit /\ OtherInit /\ lpc = "direct" /\ tracing = FALSE

\* VikunjaClient(): the object exists and holds no connection yet.
Construct ==
    /\ ~constructed
    /\ constructed' = TRUE
    /\ _client' = init_client
    /\ nConns' = (IF init_client = None THEN nConns ELSE nConns + 1)
    /\ UNCHANGED <<connClosed, acloseCalls>>

NewClient ==
    /\ lpc = "direct"
    /\ Construct
    /\ UNCHANGED <<taskVars, lpc>>

\* ------------------------------------------------------------- _get_client
get_client_always_new == TRUE

\* `if self._client is None`
get_client_creates == _client = None

\* The connection _get_client returns.
get_client == IF get_client_creates THEN nConns + 1 ELSE _client

\* ----------------------------------------------------------------- request
\* The loop `for attempt in range(MAX_RETRIES)`.
in_loop(a) == a < MAX_RETRIES

retry_429_always(o, a) == o.status = 429

retry_status_5xx(o, a) == (o.status = 429 \/ o.status >= 500) /\ a < MAX_RETRIES - 1

\* `e.response.status_code == 429 and attempt < MAX_RETRIES - 1`
retry_status(o, a) == o.status = 429 /\ a < MAX_RETRIES - 1

retry_network_off_by_one(a) == a < MAX_RETRIES - 2

\* `if attempt < MAX_RETRIES - 1` of the network branch
retry_network(a) == a < MAX_RETRIES - 1

backoff_fixed(a) == RETRY_DELAY

\* `delay = RETRY_DELAY * (2 ** attempt)`
backoff(a) == RETRY_DELAY * Pow2(a)

\* The call ends: its locals (attempt, client) die with the coroutine, the
\* caller gets r.
Finish(t, lg, o, r) ==
    /\ pc' = [pc EXCEPT ![t] = "done"]
    /\ result' = [result EXCEPT ![t] = r]
    /\ last' = [last EXCEPT ![t] = o]
    /\ log' = [log EXCEPT ![t] = IF tracing /\ o # NoOutcome
                                  THEN Append(lg, AttemptEvent(o))
                                  ELSE lg]
    /\ attempt' = [attempt EXCEPT ![t] = 0]
    /\ local' = [local EXCEPT ![t] = None]

is_closed_never(c) == FALSE

\* httpx.AsyncClient.request on a client whose aclose() has been called.
is_closed(c) == c \in connClosed

\* `await client.request(...)` on connection c with loop index a: httpx
\* raises RuntimeError at once on a closed client, and the loop's end is the
\* trailing RuntimeError; otherwise the attempt is in flight.
Issue(t, c, a, lg) ==
    IF ~in_loop(a)
    THEN Finish(t, lg, NoOutcome, Raised("RuntimeError", 0))
    ELSE IF is_closed(c)
    THEN Finish(t, lg, ClosedOutcome, Raised("RuntimeError", 0))
    ELSE /\ pc' = [pc EXCEPT ![t] = "inflight"]
         /\ attempt' = [attempt EXCEPT ![t] = a]
         /\ local' = [local EXCEPT ![t] = c]
         /\ log' = [log EXCEPT ![t] = lg]
         /\ last' = [last EXCEPT ![t] = NoOutcome]
         /\ UNCHANGED result

\* request() up to its first suspension.
RequestBegin(t) ==
    /\ constructed
    /\ lpc \in {"direct", "running"}
    /\ get_client_creates => nConns < MaxConns
    /\ _client' = get_client
    /\ nConns' = (IF get_client_creates THEN nConns + 1 ELSE nConns)
    /\ op' = [op EXCEPT ![t] = "request"]
    /\ Issue(t, get_client, 0, <<>>)
    /\ UNCHANGED <<constructed, connClosed, acloseCalls, lpc, tracing, env, cred, auxVars>>

\* A caller that is in no call of the client calls request().
RequestStart(t) ==
    /\ pc[t] = "idle"
    /\ RequestBegin(t)
    /\ UNCHANGED tool

\* `await asyncio.sleep(delay)`
Sleep(t, o, d) ==
    /\ pc' = [pc EXCEPT ![t] = "sleep"]
    /\ last' = [last EXCEPT ![t] = o]
    /\ log' = [log EXCEPT ![t] = IF tracing
                                  THEN Append(Append(@, AttemptEvent(o)), SleepEvent(d))
                                  ELSE @]
    /\ UNCHANGED <<attempt, local, result>>

success_value_wrapped(o) == json_wrapped(o.body)

\* `return response.json()`
success_value(o) == json(o.body)

\* The attempt in flight comes back with outcome o.
AttemptCompletes(t, o) ==
    /\ pc[t] = "inflight"
    /\ IF o.kind = "response" /\ ~is_error(o)
       THEN IF success_value(o) = JSONDecodeError
            THEN Finish(t, log[t], o, Raised("JSONDecodeError", 0))
            ELSE Finish(t, log[t], o, Returned(success_value(o)))
       ELSE IF o.kind = "response"
       THEN IF retry_status(o, attempt[t])
            THEN Sleep(t, o, backoff(attempt[t]))
            ELSE Finish(t, log[t], o, Raised("HTTPStatusError", o.status))
       ELSE IF retry_network(attempt[t])
            THEN Sleep(t, o, backoff(attempt[t]))
            ELSE Finish(t, log[t], o, Raised(o.kind, 0))
    /\ UNCHANGED <<clientVars, op, lpc, otherVars>>

\* The sleep returns: `continue`, the next loop index, the next attempt.
Wake(t) ==
    /\ pc[t] = "sleep"
    /\ Issue(t, local[t], attempt[t] + 1, log[t])
    /\ UNCHANGED <<clientVars, op, lpc, otherVars>>

\* ------------------------------------------------------------------- close
\* `if self._client is not None`
close_has_client == _client # None

close_keeps_reference == _client

\* `self._client = None`
close_leaves == None

\* close() up to its suspension inside aclose(), or to its end.
CloseStart(t) ==
    /\ constructed
    /\ pc[t] = "idle"
    /\ op' = [op EXCEPT ![t] = "close"]
    /\ IF close_has_client
       THEN /\ pc' = [pc EXCEPT ![t] = "closing"]
            /\ connClosed' = connClosed \cup {_client}
            /\ acloseCalls' = [acloseCalls EXCEPT ![_client] = @ + 1]
            /\ UNCHANGED result
       ELSE /\ pc' = [pc EXCEPT ![t] = "done"]
            /\ result' = [result EXCEPT ![t] = Returned(NoJson)]
            /\ UNCHANGED <<connClosed, acloseCalls>>
    /\ UNCHANGED <<constructed, _client, nConns, attempt, local, last, otherVars, log>>

\* aclose() returns; close() drops the reference and returns.
CloseFinish(t) ==
    /\ pc[t] = "closing"
    /\ _client' = close_leaves
    /\ pc' = [pc EXCEPT ![t] = "done"]
    /\ result' = [result EXCEPT ![t] = Returned(NoJson)]
    /\ UNCHANGED <<constructed, nConns, connClosed, acloseCalls,
                   op, attempt, local, last, otherVars, log>>

\* The caller takes the result; the coroutine is free for its next call.
Return(t) ==
    /\ pc[t] = "done"
    /\ pc' = [pc EXCEPT ![t] = "idle"]
    /\ op' = [op EXCEPT ![t] = "none"]
    /\ last' = [last EXCEPT ![t] = NoOutcome]
    /\ result' = [result EXCEPT ![t] = NoResult]
    /\ log' = [log EXCEPT ![t] = <<>>]
    /\ UNCHANGED <<clientVars, attempt, local, lpc, otherVars>>

\* Callers that use the client directly: any mix of request() and close().
Next ==
    \/ NewClient
    \/ \E t \in Tasks : RequestStart(t)
    \/ \E t \in Tasks : \E o \in Outcomes : AttemptCompletes(t, o)
    \/ \E t \in Tasks : Wake(t)
    \/ \E t \in Tasks : CloseStart(t) /\ UNCHANGED lpc
    \/ \E t \in Tasks : CloseFinish(t) /\ UNCHANGED lpc
    \/ \E t \in Tasks : Return(t)

Spec == Init /\ [][Next]_vars

\* The event loop resumes a coroutine once what it awaits has returned: every
\* attempt in flight comes back and every sleep ends.
Fairness ==
    \A t \in Tasks :
        /\ WF_vars(\E o \in Outcomes : AttemptCompletes(t, o))
        /\ WF_vars(Wake(t))

FairSpec == Init /\ [][Next]_vars /\ Fairness

\* One caller, one call at a time, every call logged.
Caller == 1

TraceInit == ClientInit /\ TaskInit /\ OtherInit /\ lpc = "direct" /\ tracing = TRUE

TraceNext ==
    \/ NewClient
    \/ RequestStart(Caller)
    \/ \E o \in Outcomes : AttemptCompletes(Caller, o)
    \/ Wake(Caller)
    \/ CloseStart(Caller) /\ UNCHANGED lpc
    \/ CloseFinish(Caller) /\ UNCHANGED lpc
    \/ Return(Caller)

TraceSpec == TraceInit /\ [][TraceNext]_vars

\* ---------------------------------------------------------------- lifespan
\* server.py's lifespan(app), an @asynccontextmanager generator.  lpc:
\*   start     before `_client = VikunjaClient()`
\*   startup   client built and handed to the tool modules, before the prints
\*   running   suspended at `yield`: the server serves tool calls
\*   shutdown  resumed after `yield`, inside `await _client.close()`
\*   exited    the generator ran to its end
\*   failed    an exception left the generator
LifespanInit == ClientInit /\ TaskInit /\ OtherInit /\ lpc = "start" /\ tracing = FALSE

\* Lines 79-91: build the client, set_client() x4, is_agent_available().
LifespanConstruct ==
    /\ lpc = "start"
    /\ Construct
    /\ lpc' = "startup"
    /\ UNCHANGED taskVars

\* Line 79 raises ValueError: no credentials, no client.
LifespanConstructFails ==
    /\ lpc = "start"
    /\ lpc' = "failed"
    /\ UNCHANGED <<clientVars, taskVars>>

\* Lines 93-100: the prints succeed and the generator yields.
LifespanYield ==
    /\ lpc = "startup"
    /\ lpc' = "running"
    /\ UNCHANGED <<clientVars, taskVars>>

\* Lines 93-98: a print raises (stdout closed or not UTF-8).
LifespanStartupError ==
    /\ lpc = "startup"
    /\ lpc' = "failed"
    /\ UNCHANGED <<clientVars, taskVars>>

\* The server stops normally: the generator resumes after `yield` and
\* calls close() (line 103).
LifespanShutdown ==
    /\ lpc = "running"
    /\ lpc' = "shutdown"
    /\ CloseStart(Lifespan)

\* aclose() returns inside the lifespan's close().
LifespanCloseFinish ==
    /\ lpc = "shutdown"
    /\ CloseFinish(Lifespan)
    /\ UNCHANGED lpc

\* Line 104: close() has returned, the generator ends.
LifespanExit ==
    /\ lpc = "shutdown"
    /\ pc[Lifespan] = "done"
    /\ lpc' = "exited"
    /\ UNCHANGED <<clientVars, taskVars>>

\* The server body raises (or is cancelled): the exception is thrown into
\* the generator at `yield`, which has no try/finally around it.
LifespanRunError ==
    /\ lpc = "running"
    /\ lpc' = "failed"
    /\ UNCHANGED <<clientVars, taskVars>>

\* Tool handlers call request() while the server runs; calls in flight may
\* outlive it.
LifespanNext ==
    \/ LifespanConstruct
    \/ LifespanConstructFails
    \/ LifespanYield
    \/ LifespanStartupError
    \/ LifespanShutdown
    \/ LifespanCloseFinish
    \/ LifespanExit
    \/ LifespanRunError
    \/ \E t \in Tasks : RequestStart(t)
    \/ \E t \in Tasks : \E o \in Outcomes : AttemptCompletes(t, o)
    \/ \E t \in Tasks : Wake(t)
    \/ \E t \in Tasks : Return(t)

LifespanSpec == LifespanInit /\ [][LifespanNext]_vars

\* ------------------------------------------------- credential resolution
\* A process in any surroundings.
requestVars == <<pc, op, attempt, local, last, result, log, lpc, tracing>>

CredInit ==
    /\ ClientInit /\ TaskInit
    /\ env \in Envs /\ cred = NoCred /\ tool = NoTool /\ page = NoPage /\ RestInit
    /\ lpc = "direct" /\ tracing = FALSE

\* VikunjaClient(): _load_config, the two checks, and only then the object.
\* __init__ up to its last line: _load_config, which asks
\* is_agent_available() when the OpenBao module was imported, and the checks.
LoadAndCheck ==
    /\ cache.calls < MaxCalls
    /\ cred' = [cred EXCEPT !.call = "__init__", !.passed = TRUE, !.required = TRUE,
                            !.out = init_fields.out, !.fields = init_fields.fields,
                            !.branch = IF env.OPENBAO_AVAILABLE
                                       THEN branch_of(is_agent_available)
                                       ELSE "no-agent"]
    /\ cache' = IF env.OPENBAO_AVAILABLE THEN cache_after_call ELSE cache
    /\ UNCHANGED <<requestVars, env, tool, page, err, server>>

InitClient ==
    /\ ~constructed
    /\ LoadAndCheck
    /\ IF init_fields.out.kind = "return" THEN Construct ELSE UNCHANGED clientVars

\* The process builds one more VikunjaClient; when __init__ raises, the
\* object built before stays.
InitAnother ==
    /\ LoadAndCheck
    /\ IF init_fields.out.kind = "return"
       THEN /\ constructed' = TRUE
            /\ _client' = init_client
            /\ UNCHANGED <<nConns, connClosed, acloseCalls>>
       ELSE UNCHANGED clientVars

\* The agent goes down, or comes up.
HealthChanges ==
    /\ env' = [env EXCEPT !.healthy = ~@]
    /\ UNCHANGED <<clientVars, requestVars, cred, tool, auxVars>>

CacheNext == InitAnother \/ HealthChanges

CacheSpec == CredInit /\ [][CacheNext]_vars

CallGetMcpToken(f, req) ==
    /\ cred' = [cred EXCEPT !.call = "get_mcp_token", !.passed = (f # ""),
                            !.required = req, !.out = get_mcp_token(f, req)]
    /\ UNCHANGED <<clientVars, requestVars, env, tool, auxVars>>

CallGetMcpConfig(p) ==
    /\ cred' = [cred EXCEPT !.call = "get_mcp_config", !.passed = p,
                            !.required = TRUE, !.out = get_mcp_config(p)]
    /\ UNCHANGED <<clientVars, requestVars, env, tool, auxVars>>

NewLoader(f) ==
    /\ ~cred.loader.built
    /\ cred' = [cred EXCEPT !.loader = FreshLoader(f)]
    /\ UNCHANGED <<clientVars, requestVars, env, tool, auxVars>>

CallLoad ==
    /\ cred.loader.built
    /\ cred' = [cred EXCEPT !.call = "load", !.passed = (cred.loader.dev_fallback # ""),
                            !.required = TRUE, !.out = load(cred.loader).out,
                            !.loader = load(cred.loader).loader]
    /\ UNCHANGED <<clientVars, requestVars, env, tool, auxVars>>

\* The process builds the client and uses it.
ConstructNext ==
    \/ InitClient
    \/ RequestStart(Caller)
    \/ \E o \in Outcomes : AttemptCompletes(Caller, o)
    \/ Wake(Caller)
    \/ CloseStart(Caller) /\ UNCHANGED lpc
    \/ CloseFinish(Caller) /\ UNCHANGED lpc
    \/ Return(Caller)

ConstructSpec == CredInit /\ [][ConstructNext]_vars

\* The process calls the credential functions.
CredNext ==
    \/ \E f \in {"", "VIKUNJA_TOKEN"} : \E req \in BOOLEAN : CallGetMcpToken(f, req)
    \/ \E p \in BOOLEAN : CallGetMcpConfig(p)
    \/ \E f \in {"", "VIKUNJA_TOKEN"} : NewLoader(f)
    \/ CallLoad

CredSpec == CredInit /\ [][CredNext]_vars

\* ------------------------------------------------------------------ tools
\* The handler of caller t ends with the string r.
ToolReturns(t, r, failed) ==
    tool' = [tool EXCEPT ![t].step = "returned", ![t].ret = r, ![t].raised = failed]

\* An exception leaves the handler.
ToolPropagates(t, e) ==
    tool' = [tool EXCEPT ![t].step = "returned", ![t].propagated = e.exc,
                         ![t].raised = TRUE]

\* `except Exception as e: return handle_api_error(e)`
ToolExcept(t, e, failed) ==
    IF caught(e) THEN ToolReturns(t, handle_api_error(e), failed)
    ELSE ToolPropagates(t, e)

\* The handler's coroutine is free of the client call it awaited.
CallOver(t) ==
    /\ pc' = [pc EXCEPT ![t] = "idle"]
    /\ op' = [op EXCEPT ![t] = "none"]
    /\ last' = [last EXCEPT ![t] = NoOutcome]
    /\ result' = [result EXCEPT ![t] = NoResult]
    /\ log' = [log EXCEPT ![t] = <<>>]
    /\ UNCHANGED <<clientVars, attempt, local, lpc, tracing, env, cred, auxVars>>

\* A tool is called: the handler builds its first request and awaits it.
ToolCall(t, h, limit, offset) ==
    /\ tool[t].handler = "none"
    /\ pc[t] = "idle"
    /\ tool' = [tool EXCEPT ![t] = [ToolIdle EXCEPT
                    !.handler = h, !.step = "first", !.limit = limit,
                    !.offset = offset,
                    !.calls = <<first_call(h, limit, offset)>>]]
    /\ RequestBegin(t)

\* `existing_reminders = task.get("reminders") or []` and the same on the
\* response of the update: both need a dict.
AttributeError == Raised("AttributeError", 0)
is_dict(v) == v.type = "object"

\* vikunja_list_tasks (JSON format) after its request: the tasks and the
\* total it takes from the response, which holds neither "tasks" nor "total"
\* here.
list_tasks_of(v) == IF v.type = "array" THEN v.members ELSE <<>>
list_total_of_server(v) == Len(list_tasks_of(v)) + 1

list_total_of(v) == Len(list_tasks_of(v))

\* The request the handler awaited has ended: the handler goes on with its
\* value or with its exception, up to its next await or to its return.
ToolResume(t) ==
    /\ tool[t].step \in {"first", "second"}
    /\ pc[t] = "done"
    /\ LET r == result[t]
           h == tool[t].handler
       IN  IF r.kind = "raise"
           THEN ToolExcept(t, r, TRUE) /\ CallOver(t)
           ELSE IF h = "vikunja_create_task"
           THEN ToolReturns(t, format_json_response(r.value), FALSE) /\ CallOver(t)
           ELSE IF h = "vikunja_delete_label"
           THEN ToolReturns(t, <<"Label #", "10", "has been successfully deleted.">>,
                            FALSE) /\ CallOver(t)
           ELSE IF h = "vikunja_list_tasks"
           THEN /\ tool' = [tool EXCEPT
                      ![t].step = "returned",
                      ![t].ret = <<"json", "pagination", "tasks">>,
                      ![t].pagination =
                          build_pagination_response(list_tasks_of(r.value),
                                                    list_total_of(r.value),
                                                    tool[t].limit, tool[t].offset)]
                /\ CallOver(t)
           ELSE IF ~is_dict(r.value)
           THEN ToolExcept(t, AttributeError, FALSE) /\ CallOver(t)
           ELSE IF tool[t].step = "first"
           THEN /\ tool' = [tool EXCEPT
                      ![t].step = "second",
                      ![t].calls = Append(@, reminder_update_call(r.value))]
                /\ RequestBegin(t)
           ELSE ToolReturns(t, <<"json", "task_id", "reminders">>, FALSE) /\ CallOver(t)

\* The server hands the handler's string to the protocol layer.
ToolDone(t) ==
    /\ tool[t].step = "returned"
    /\ tool' = [tool EXCEPT ![t] = ToolIdle]
    /\ UNCHANGED <<clientVars, requestVars, env, cred, auxVars>>

ToolInit == ClientInit /\ TaskInit /\ OtherInit /\ lpc = "direct" /\ tracing = FALSE

ToolNext ==
    \/ NewClient
    \/ \E h \in Handlers : \E limit \in 1..MaxLimit : \E offset \in 0..MaxOffset :
           ToolCall(Caller, h, limit, offset)
    \/ \E o \in Outcomes : AttemptCompletes(Caller, o)
    \/ Wake(Caller)
    \/ ToolResume(Caller)
    \/ ToolDone(Caller)

ToolSpec == ToolInit /\ [][ToolNext]_vars

\* --------------------------------------------------- concurrent reminders
\* Every caller runs vikunja_add_reminder once, for task 123, each with a
\* reminder date of its own; the server keeps the task's reminders, answers
\* the GET with them and stores what a POST sends.  tool[t].answered: the
\* server has handled the request of t that is in flight; tool[t].reminders:
\* the "reminders" member of the body it answered with.
new_reminder(t) == <<ToString(t)>>

\* The task object of a response: the members of every task and its
\* reminders.
with_reminders(v, rs) == [v EXCEPT !.members = Append(@, <<"reminders", rs>>)]

OkTask == [kind |-> "response", status |-> 200, body |-> ObjectText]

AddReminder(t) ==
    /\ tool[t].handler = "none"
    /\ pc[t] = "idle"
    /\ tool' = [tool EXCEPT ![t] = [ToolIdle EXCEPT
                    !.handler = "vikunja_add_reminder", !.step = "first",
                    !.calls = <<first_call("vikunja_add_reminder", 1, 0)>>]]
    /\ RequestBegin(t)
    /\ UNCHANGED server

\* The server handles the request of t: a GET reads the stored reminders, a
\* POST replaces them by the ones it carries.
ServerHandles(t) ==
    /\ tool[t].handler = "vikunja_add_reminder"
    /\ pc[t] = "inflight" /\ ~tool[t].answered
    /\ LET call == tool[t].calls[Len(tool[t].calls)]
           stored == IF call.method = "POST" THEN call.value ELSE server.reminders
       IN  /\ server' = [server EXCEPT !.reminders = stored]
           /\ tool' = [tool EXCEPT ![t].answered = TRUE, ![t].reminders = stored]
    /\ UNCHANGED <<clientVars, requestVars, env, cred, page, err, cache>>

\* The answer reaches the client: request() returns the parsed body.
ServerResponds(t) ==
    /\ tool[t].handler = "vikunja_add_reminder"
    /\ tool[t].answered
    /\ AttemptCompletes(t, OkTask)

\* The handler goes on with the value request() returned.
AddReminderResume(t) ==
    /\ tool[t].handler = "vikunja_add_reminder"
    /\ tool[t].step \in {"first", "second"}
    /\ pc[t] = "done" /\ result[t].kind = "return"
    /\ LET task == with_reminders(result[t].value, tool[t].reminders) IN
       IF tool[t].step = "first"
       THEN /\ tool' = [tool EXCEPT
                  ![t].step = "second",
                  ![t].answered = FALSE,
                  ![t].calls = Append(@,
                      Call("POST", "tasks/123", 0, 0, "reminders",
                           updated_reminders(task, new_reminder(t))))]
            /\ RequestBegin(t)
       ELSE /\ tool' = [tool EXCEPT
                  ![t].step = "returned",
                  ![t].ret = <<"json", "task_id", "reminders">>,
                  ![t].reminders = json_get(task, "reminders", <<>>)]
            /\ CallOver(t)
    /\ UNCHANGED server

ReminderInit == ClientInit /\ TaskInit /\ OtherInit /\ lpc = "direct" /\ tracing = FALSE

ReminderNext ==
    \/ NewClient
    \/ \E t \in Tasks : AddReminder(t)
    \/ \E t \in Tasks : ServerHandles(t)
    \/ \E t \in Tasks : ServerResponds(t)
    \/ \E t \in Tasks : AddReminderResume(t)

ReminderSpec == ReminderInit /\ [][ReminderNext]_vars

\* ------------------------------------------------------------ task lists
\* The three handlers that list tasks, JSON format, against a server that
\* holds server.tasks tasks and answers page `page` of `per_page` tasks with
\* a bare array.  tool[t].tasks: the members of the array it answered with.
ListHandlers ==
    {"vikunja_list_tasks", "vikunja_get_project_tasks", "vikunja_get_tasks_by_label"}

\* Tasks (pg - 1) * pp + 1 .. pg * pp of the n the server holds.
page_items(n, pg, pp) ==
    LET lo == (pg - 1) * pp + 1
        hi == IF pg * pp < n THEN pg * pp ELSE n
    IN  [i \in 1..(IF hi >= lo THEN hi - lo + 1 ELSE 0) |-> lo + i - 1]

OkArray == [kind |-> "response", status |-> 200, body |-> ArrayText]

ListCall(t, h, limit, offset) ==
    /\ tool[t].handler = "none"
    /\ pc[t] = "idle"
    /\ tool' = [tool EXCEPT ![t] = [ToolIdle EXCEPT
                    !.handler = h, !.step = "first", !.limit = limit,
                    !.offset = offset,
                    !.calls = <<first_call(h, limit, offset)>>]]
    /\ RequestBegin(t)
    /\ UNCHANGED server

ServerLists(t) ==
    /\ tool[t].handler \in ListHandlers
    /\ pc[t] = "inflight" /\ ~tool[t].answered
    /\ LET call == tool[t].calls[1] IN
       tool' = [tool EXCEPT
                  ![t].answered = TRUE,
                  ![t].tasks = page_items(server.tasks, call.page, call.per_page)]
    /\ UNCHANGED <<clientVars, requestVars, env, cred, auxVars>>

ListResponds(t) ==
    /\ tool[t].handler \in ListHandlers
    /\ tool[t].answered
    /\ AttemptCompletes(t, OkArray)

\* `tasks = response` / `response if isinstance(response, list) else []`,
\* `total = len(tasks)`, build_pagination_response, format_json_response.
ListResume(t) ==
    /\ tool[t].handler \in ListHandlers
    /\ tool[t].step = "first"
    /\ pc[t] = "done" /\ result[t].kind = "return"
    /\ LET response == [result[t].value EXCEPT !.members = tool[t].tasks] IN
       tool' = [tool EXCEPT
                  ![t].step = "returned",
                  ![t].ret = <<"json", "pagination", "tasks">>,
                  ![t].pagination =
                      build_pagination_response(list_tasks_of(response),
                                                list_total_of(response),
                                                tool[t].limit, tool[t].offset)]
    /\ CallOver(t)

ListInit ==
    /\ ClientInit /\ TaskInit /\ lpc = "direct" /\ tracing = FALSE
    /\ env = SettledEnv /\ cred = NoCred /\ tool = NoTool /\ page = NoPage
    /\ err = NoErr /\ cache = NoCache
    /\ server \in {[NoServer EXCEPT !.tasks = n] : n \in 0..MaxTotal}

ListNext ==
    \/ NewClient
    \/ \E h \in ListHandlers : \E limit \in 1..MaxLimit : \E offset \in 0..MaxOffset :
           ListCall(Caller, h, limit, offset)
    \/ ServerLists(Caller)
    \/ ListResponds(Caller)
    \/ ListResume(Caller)
    \/ ToolDone(Caller)

ListSpec == ListInit /\ [][ListNext]_vars

\* ------------------------------------------------------------- pagination
\* build_pagination_response applied to every list, total, limit and offset
\* within the bounds.
PageInit ==
    /\ ClientInit /\ TaskInit /\ lpc = "direct" /\ tracing = FALSE
    /\ env = SettledEnv /\ cred = NoCred /\ tool = NoTool /\ RestInit
    /\ page \in [items : {Items(n) : n \in 0..MaxItems}, total : 0..MaxTotal,
                 limit : 1..MaxLimit, offset : 0..MaxOffset,
                 called : {FALSE}, out : {NoPagination}]

BuildPagination ==
    /\ ~page.called
    /\ page' = [page EXCEPT
                  !.called = TRUE,
                  !.out = build_pagination_response(page.items, page.total,
                                                    page.limit, page.offset)]
    /\ UNCHANGED <<clientVars, requestVars, env, cred, tool, restVars>>

PageNext == BuildPagination

PageSpec == PageInit /\ [][PageNext]_vars

\* ------------------------------------------------------- error messages
\* handle_api_error applied to every exception of Exceptions.
ErrorInit ==
    /\ ClientInit /\ TaskInit /\ lpc = "direct" /\ tracing = FALSE
    /\ env = SettledEnv /\ cred = NoCred /\ tool = NoTool /\ page = NoPage
    /\ err \in [e : Exceptions, called : {FALSE}, out : {<<>>}]
    /\ cache = NoCache /\ server = NoServer

HandleApiError ==
    /\ ~err.called
    /\ err' = [err EXCEPT !.called = TRUE, !.out = handle_api_error(err.e)]
    /\ UNCHANGED <<clientVars, requestVars, env, cred, tool, page, cache, server>>

ErrorNext == HandleApiError

ErrorSpec == ErrorInit /\ [][ErrorNext]_vars

\* ------------------------------------------------------- reading the log
IsAttempt(e) == e.ev = "attempt"
IsSleep(e) == e.ev = "sleep"

\* The outcomes of the attempts of a log, in order.
RECURSIVE AttemptOutcomes(_)
AttemptOutcomes(lg) ==
    IF lg = <<>> THEN <<>>
    ELSE IF IsAttempt(Head(lg)) THEN <<Head(lg).out>> \o AttemptOutcomes(Tail(lg))
    ELSE AttemptOutcomes(Tail(lg))

\* The number of attempts among the first i entries of a log.
AttemptIndex(lg, i) == Len(AttemptOutcomes(SubSeq(lg, 1, i)))

\* HTTP attempts the running or finished call has issued.
AttemptsIssued(t) ==
    Len(AttemptOutcomes(log[t])) + (IF pc[t] = "inflight" THEN 1 ELSE 0)

Is429(o) == o.kind = "response" /\ o.status = 429
IsOtherStatus(o) ==
    o.kind = "response" /\ o.status # 429 /\ ~(o.status >= 200 /\ o.status < 300)
Is2xx(o) == o.kind = "response" /\ o.status >= 200 /\ o.status < 300
IsNetwork(o) == o.kind \in {"TimeoutException", "ConnectError"}
Running(t) == pc[t] \in {"inflight", "sleep"}

\* ------------------------------------------------------------------ claims

\* C1: whatever the attempts come back with (2xx, 429, another status, a
\* timeout, a connection error, in any mix), one call to request issues at
\* most 3 HTTP attempts.
C1_AtMostThreeAttempts == \A t \in Callers : AttemptsIssued(t) <= 3

\* A call that used its whole budget on a mix of rate-limit and network
\* failures.
C1_Witness ==
    /\ pc[Caller] = "done"
    /\ Len(AttemptOutcomes(log[Caller])) = 3
    /\ \E i, j \in 1..3 :
          /\ Is429(AttemptOutcomes(log[Caller])[i])
          /\ IsNetwork(AttemptOutcomes(log[Caller])[j])

\* C2: a call whose attempts 1 and 2 get HTTP 429 and whose attempt 3 gets a
\* 2xx JSON response returns the parsed body, and its log is exactly
\* attempt, sleep 1s, attempt, sleep 2s, attempt: two sleeps, each between
\* a failed attempt and the next one.
C2_Retry429ThenSuccess ==
    \A t \in Callers :
        LET out == AttemptOutcomes(log[t])
        IN (/\ Len(out) = 3
            /\ Is429(out[1])
            /\ Is429(out[2])
            /\ Is2xx(out[3])
            /\ json(out[3].body) # JSONDecodeError)
           => /\ pc[t] = "done"
              /\ result[t] = Returned(json(out[3].body))
              /\ log[t] = <<AttemptEvent(out[1]), SleepEvent(1),
                            AttemptEvent(out[2]), SleepEvent(2),
                            AttemptEvent(out[3])>>

C2_Witness ==
    LET out == AttemptOutcomes(log[Caller])
    IN /\ Len(out) = 3
       /\ Is429(out[1])
       /\ Is429(out[2])
       /\ out[3] = [kind |-> "response", status |-> 200, body |-> ObjectText]
       /\ result[Caller].kind = "return"

\* C3: a call that gets HTTP 429 on every attempt goes on until its third
\* attempt and then raises the HTTP 429 status error; its log is exactly
\* attempt, sleep 1s, attempt, sleep 2s, attempt, so nothing follows the
\* third attempt.
C3_Persistent429 ==
    \A t \in Callers :
        LET out == AttemptOutcomes(log[t])
        IN (Len(out) >= 1 /\ \A i \in 1..Len(out) : Is429(out[i]))
           => IF Len(out) = 3
              THEN /\ pc[t] = "done"
                   /\ result[t] = Raised("HTTPStatusError", 429)
                   /\ log[t] = <<AttemptEvent(out[1]), SleepEvent(1),
                                 AttemptEvent(out[2]), SleepEvent(2),
                                 AttemptEvent(out[3])>>
              ELSE Len(out) < 3 /\ Running(t)

C3_Witness ==
    LET out == AttemptOutcomes(log[Caller])
    IN /\ Len(out) = 3
       /\ \A i \in 1..3 : Is429(out[i])
       /\ pc[Caller] = "done"
       /\ result[Caller].kind = "raise"

\* C4: an attempt that gets a non-2xx status other than 429, whether it is
\* the first attempt or one reached after retries, is the last entry of the
\* call's log, and the call has raised the HTTP status error with that
\* status: no sleep and no attempt follow it.
C4_OtherStatusNotRetried ==
    \A t \in Callers :
        \A i \in 1..Len(log[t]) :
            (IsAttempt(log[t][i]) /\ IsOtherStatus(log[t][i].out))
            => /\ i = Len(log[t])
               /\ pc[t] = "done"
               /\ result[t] = Raised("HTTPStatusError", log[t][i].out.status)

\* A 5xx on the third attempt, after a 429 and a timeout.
C4_Witness ==
    LET out == AttemptOutcomes(log[Caller])
    IN /\ Len(out) = 3
       /\ Is429(out[1])
       /\ out[2].kind = "TimeoutException"
       /\ out[3].status = 503
       /\ pc[Caller] = "done"

\* C5: a timeout or connection error on attempt index 0 or 1 is followed in
\* the log by a sleep of 1s * 2^index, and after the sleep comes another
\* attempt; on index 2 it is the last entry, and the call has raised that
\* same failure.
C5_NetworkRetry ==
    \A t \in Callers :
        \A i \in 1..Len(log[t]) :
            (IsAttempt(log[t][i]) /\ IsNetwork(log[t][i].out))
            => IF AttemptIndex(log[t], i) < 3
               THEN /\ i < Len(log[t])
                    /\ log[t][i + 1] =
                         SleepEvent(IF AttemptIndex(log[t], i) = 1 THEN 1 ELSE 2)
                    /\ IF i + 1 = Len(log[t])
                       THEN Running(t)
                       ELSE IsAttempt(log[t][i + 2])
               ELSE /\ i = Len(log[t])
                    /\ pc[t] = "done"
                    /\ result[t] = Raised(log[t][i].out.kind, 0)

\* Three network failures, both kinds among them.
C5_Witness ==
    LET out == AttemptOutcomes(log[Caller])
    IN /\ Len(out) = 3
       /\ out[1].kind = "TimeoutException"
       /\ out[2].kind = "ConnectError"
       /\ out[3].kind = "TimeoutException"
       /\ result[Caller] = Raised("TimeoutException", 0)

\* C6: an attempt that gets a 2xx response is the last entry of the call's
\* log and ends the call; when the body is JSON (an object or an array) the
\* call has returned exactly the value response.json() gives for it.
C6_SuccessReturnsBody ==
    \A t \in Callers :
        \A i \in 1..Len(log[t]) :
            (IsAttempt(log[t][i]) /\ Is2xx(log[t][i].out))
            => /\ i = Len(log[t])
               /\ pc[t] = "done"
               /\ log[t][i].out.body = ObjectText =>
                    result[t] =
                      Returned([type |-> "object",
                                members |-> << <<"id", "1">>,
                                               <<"title", "Test Task">> >>])
               /\ log[t][i].out.body = ArrayText =>
                    result[t] = Returned([type |-> "array", members |-> <<>>])

C6_Witness ==
    /\ pc[Caller] = "done"
    /\ Len(log[Caller]) = 1
    /\ log[Caller][1].out = [kind |-> "response", status |-> 200, body |-> ObjectText]
    /\ result[Caller].value.type = "object"

\* C7: as long as close() has never released a connection, the client has
\* created at most one connection, and every request that is in flight or
\* in a backoff sleep holds that one connection, which is the one the
\* client references.
C7_OneConnection ==
    (\A c \in ConnIds : acloseCalls[c] = 0)
    => /\ nConns <= 1
       /\ \A t \in Tasks : Running(t) => (local[t] = 1 /\ _client = 1 /\ nConns = 1)

\* Two requests in flight at once.
C7_Witness ==
    /\ \A c \in ConnIds : acloseCalls[c] = 0
    /\ \E t, u \in Tasks : t # u /\ Running(t) /\ Running(u)

\* C8: the step that constructs the client leaves _client None and creates
\* no connection; a request that starts with _client None creates one new
\* connection and stores it; a request that starts with a connection in
\* _client creates none and uses that one; and _client changes from a
\* connection to anything else only in a step that ends a close().
C8_LazyAndReused ==
    [][/\ (~constructed /\ constructed') => (_client' = None /\ nConns' = 0)
       /\ \A t \in Callers :
            (pc[t] = "idle" /\ op'[t] = "request")
            => /\ IF _client = None
                  THEN _client' = nConns + 1 /\ nConns' = nConns + 1
                  ELSE _client' = _client /\ nConns' = nConns
               /\ pc'[t] = "inflight" => local'[t] = _client'
       /\ (_client # None /\ _client' # _client)
            => \E t \in Callers : pc[t] = "closing" /\ pc'[t] = "done"]_vars

\* A request has finished, a later one is in flight on the same, only
\* connection, and no close() has released anything.
C8_Witness ==
    /\ \A c \in ConnIds : acloseCalls[c] = 0
    /\ nConns = 1
    /\ \E t, u \in Tasks :
          /\ pc[t] = "done" /\ op[t] = "request"
          /\ pc[u] = "inflight" /\ local[u] = 1

\* C9: a close() that finds _client None returns at once, raises nothing and
\* changes nothing of the client; a close() that finds a connection calls
\* its aclose() once; the step in which close() returns leaves _client None
\* (so a close() that directly follows finds None and releases nothing);
\* close() never raises.
C9_CloseIdempotent ==
    [][\A t \in Callers :
         /\ (pc[t] = "idle" /\ op'[t] = "close")
            => IF _client = None
               THEN /\ pc'[t] = "done"
                    /\ result'[t] = Returned(NoJson)
                    /\ UNCHANGED clientVars
               ELSE /\ pc'[t] = "closing"
                    /\ acloseCalls' = [acloseCalls EXCEPT ![_client] = @ + 1]
                    /\ _client' = _client
         /\ (op[t] = "close" /\ pc[t] = "closing" /\ pc'[t] = "done")
            => /\ _client' = None
               /\ result'[t] = Returned(NoJson)
               /\ UNCHANGED acloseCalls]_vars

\* Two close() calls have returned and the one connection was released
\* exactly once.
C9_Witness ==
    /\ nConns = 1
    /\ acloseCalls[1] = 1
    /\ _client = None
    /\ \A t \in Tasks : pc[t] = "done" /\ op[t] = "close" /\ result[t] = Returned(NoJson)

\* C10: when the lifespan has left (normally or by an exception) and it had
\* constructed the client, it has called close() on it and close() has
\* returned.
C10_CloseOnEveryExit ==
    (constructed /\ lpc \in {"exited", "failed"})
    => (op[Lifespan] = "close" /\ pc[Lifespan] = "done")

\* The normal shutdown does close the client.
C10_NormalExitCloses ==
    lpc = "exited" => (op[Lifespan] = "close" /\ pc[Lifespan] = "done")

\* ------------------------------------------------- credential resolution
\* What each source holds by itself: the url and the token, <<>> for a
\* field it does not supply.
NoYield == [url |-> <<>>, token |-> <<>>]
AgentAnswers ==
    /\ env.OPENBAO_AVAILABLE /\ env.healthy
    /\ env.reply.kind = "response" /\ env.reply.status = 200
AgentYield ==
    IF AgentAnswers
    THEN [url |-> dict_get(env.reply.secret, "url", <<>>),
          token |-> dict_get(env.reply.secret, "token", <<>>)]
    ELSE NoYield
FileYield ==
    IF env.file.exists /\ env.file.json = "object"
    THEN [url |-> file_url, token |-> file_token]
    ELSE NoYield
EnvYield ==
    [url |-> dict_get(env.environ, "VIKUNJA_URL", <<>>),
     token |-> dict_get(env.environ, "VIKUNJA_TOKEN", <<>>)]
Satisfies(y) == y.url # <<>> /\ y.token # <<>>

\* The first of agent, config file, environment that holds both fields.
Winner ==
    IF Satisfies(AgentYield) THEN AgentYield
    ELSE IF Satisfies(FileYield) THEN FileYield
    ELSE EnvYield

Constructed == cred.call = "__init__" /\ cred.out.kind = "return"
ConstructionFailed == cred.call = "__init__" /\ cred.out.kind = "raise"

\* C11: credential sources are tried in the order agent, config file,
\* environment; the first one holding both a non-empty URL and a non-empty
\* token supplies the whole pair, and a source holding only one of the two
\* fields, the agent included, is skipped.
C11_StrictOrder ==
    cred.call = "__init__" /\ Satisfies(Winner) /\ rstrip(Winner.url, "/") # <<>>
        => /\ Constructed
           /\ cred.fields.base_url = rstrip(Winner.url, "/")
           /\ cred.fields.token = Winner.token

\* C12: every client that construction returns has a non-empty base_url and
\* a non-empty token; when resolution ends with an empty URL or an empty
\* token construction raises and no client exists, so no request runs
\* without credentials.
C12_CredentialsPresent ==
    /\ constructed => cred.fields.base_url # <<>> /\ cred.fields.token # <<>>
    /\ cred.call = "__init__" /\ _load_config.kind = "return"
       /\ (dict_get(_load_config.config, "url", <<>>) = <<>>
           \/ dict_get(_load_config.config, "token", <<>>) = <<>>)
            => ~constructed /\ ConstructionFailed
    /\ op[Caller] = "request"
            => constructed /\ cred.fields.base_url # <<>> /\ cred.fields.token # <<>>

\* A request is in flight on a client whose credentials came from the last
\* source.
C12_Witness ==
    /\ constructed /\ pc[Caller] = "inflight"
    /\ cred.fields.credential_source = "environment"

NoSourceSuppliesBoth ==
    ~Satisfies(AgentYield) /\ ~Satisfies(FileYield) /\ ~Satisfies(EnvYield)

\* C13 as stated: when no source supplies both a URL and a token,
\* construction fails with an error that names the config file path and both
\* environment variables.
C13_NamesBothVariables ==
    cred.call = "__init__" /\ NoSourceSuppliesBoth
        => /\ ConstructionFailed
           /\ {"CONFIG_FILE_PATH", "VIKUNJA_URL", "VIKUNJA_TOKEN"} \subseteq cred.out.names

ResolvedUrl == rstrip(dict_get(_load_config.config, "url", <<>>), "/")
ResolvedToken == dict_get(_load_config.config, "token", <<>>)

\* C13, amended: when resolution ends without a URL or without a token,
\* construction fails with a ValueError that names the config file path and
\* the environment variable of the one value it found missing first:
\* VIKUNJA_URL when the URL is missing, VIKUNJA_TOKEN otherwise.
C13_NamesMissingVariable ==
    cred.call = "__init__" /\ _load_config.kind = "return"
    /\ (ResolvedUrl = <<>> \/ ResolvedToken = <<>>)
        => /\ ConstructionFailed
           /\ cred.out.exc = "ValueError"
           /\ cred.out.names =
                {"CONFIG_FILE_PATH",
                 IF ResolvedUrl = <<>> THEN "VIKUNJA_URL" ELSE "VIKUNJA_TOKEN"}

\* Construction failed for the token alone: the URL was found.
C13_Witness ==
    /\ ConstructionFailed /\ NoSourceSuppliesBoth
    /\ ResolvedUrl # <<>> /\ ResolvedToken = <<>>
    /\ "VIKUNJA_TOKEN" \in cred.out.names

\* The agent is up and answers, but not with the whole secret.
AgentCannotSupply ==
    /\ env.OPENBAO_AVAILABLE /\ env.healthy
    /\ env.reply.kind = "response"
    /\ ~Satisfies(AgentYield)

\* C14: with dev mode off, when the agent is running but cannot supply the
\* secret, construction fails; it takes no credentials from the config file
\* or from the environment.
C14_NoSilentFallback ==
    cred.call = "__init__" /\ ~env.DEV_MODE /\ AgentCannotSupply
        => ConstructionFailed /\ ~constructed

\* The values the environment variables hold.
EnvValues == {env.environ.VIKUNJA_URL, env.environ.VIKUNJA_TOKEN} \ {Missing}
FromEnvironment(out) ==
    /\ out.kind = "return"
    /\ \/ out.value \in EnvValues
       \/ out.config.url \in EnvValues
       \/ out.config.token \in EnvValues

\* The read of the agent that the call makes fails.
AgentReadFailed(call) ==
    \/ env.reply.kind # "response"
    \/ env.reply.status # 200
    \/ call \in {"get_mcp_token", "load"} /\ ~has_key(env.reply.secret, "token")

\* C15: get_mcp_token, get_mcp_config and DeferredCredentialLoader.load
\* return a value read from the environment only when DEV_MODE is true, a
\* dev fallback was passed and the agent read failed; with DEV_MODE false an
\* agent failure ends in a raised error or in None.
C15_FallbackOnlyInDevMode ==
    cred.call \in {"get_mcp_token", "get_mcp_config", "load"}
        => /\ FromEnvironment(cred.out)
                => env.DEV_MODE /\ cred.passed /\ AgentReadFailed(cred.call)
           /\ ~env.DEV_MODE /\ AgentReadFailed(cred.call)
                => \/ cred.out.kind = "raise"
                   \/ cred.out.kind = "return" /\ cred.out.value = Missing
                      /\ cred.out.config = EmptyDict

\* The loader returned the environment's token after the agent refused.
C15_Witness ==
    /\ cred.call = "load" /\ env.DEV_MODE /\ cred.passed
    /\ env.reply.status = 403
    /\ cred.out.kind = "return" /\ cred.out.value = <<"env-token">>
    /\ cred.loader._source = "SOURCE_ENV"

\* ------------------------------------------------------------------ tools
\* C16: every tool handler returns a string for every outcome of
\* client.request: no exception leaves it, and whenever request raised the
\* string begins with "Error:".
C16_HandlersReturnStrings ==
    \A t \in Tasks :
        tool[t].step = "returned"
            => /\ tool[t].propagated = ""
               /\ tool[t].ret # <<>>
               /\ tool[t].raised => Head(tool[t].ret) = "Error:"

\* vikunja_create_task gave back the message for a 404 that request raised.
C16_Witness ==
    /\ tool[Caller].handler = "vikunja_create_task"
    /\ tool[Caller].step = "returned"
    /\ tool[Caller].raised
    /\ tool[Caller].ret = <<"Error:", "Resource not found.">>

C19_SkipsOffset ==
    \A t \in Tasks :
        tool[t].handler = "vikunja_list_tasks"
            => /\ tool[t].calls[1].per_page = tool[t].limit
               /\ tool[t].calls[1].page = (tool[t].offset \div tool[t].limit) + 1
               /\ (tool[t].calls[1].page - 1) * tool[t].calls[1].per_page
                    = tool[t].offset

C21_RequestFrame ==
    [][constructed
         => /\ constructed'
            /\ cred.fields' = cred.fields
            /\ _client' # _client
                 => \/ /\ pc[Caller] = "idle" /\ op'[Caller] = "request"
                       /\ _client = None /\ _client' # None
                    \/ /\ op[Caller] = "close" /\ pc[Caller] = "closing"
                       /\ _client' = None]_vars

\* After a close(), a request of the client built from the config file runs
\* on the second connection, with the fields __init__ wrote.
C21_Witness ==
    /\ constructed /\ _client = 2 /\ 1 \in connClosed
    /\ pc[Caller] = "inflight" /\ local[Caller] = 2
    /\ cred.fields.credential_source = "config file"
    /\ cred.fields.api_base = <<"file-url", "/", "api", "/", "v1">>

\* ------------------------------------------------------------ the base URL
\* The URL and the token of the configuration that resolution ends with.
ConfigUrl == dict_get(_load_config.config, "url", <<>>)
ConfigToken == dict_get(_load_config.config, "token", <<>>)
Resolved == cred.call = "__init__" /\ _load_config.kind = "return"

\* b is u without its trailing slashes.
IsStripped(b, u) ==
    /\ Len(b) <= Len(u)
    /\ b = SubSeq(u, 1, Len(b))
    /\ \A i \in (Len(b) + 1)..Len(u) : u[i] = "/"
    /\ b # <<>> => b[Len(b)] # "/"

\* a is b followed by /api/v1, with one slash where they meet.
IsApiBase(a, b) ==
    /\ a = b \o <<"/", "api", "/", "v1">>
    /\ a[Len(b)] # "/"
    /\ a[Len(b) + 1] = "/"
    /\ a[Len(b) + 2] # "/"

\* C22 as stated: for every pair of a non-empty URL and a non-empty token
\* construction succeeds, base_url is the URL without its trailing slash,
\* and api_base is base_url followed by /api/v1 with exactly one slash at
\* the join.
C22_EveryPairConstructs ==
    Resolved /\ ConfigUrl # <<>> /\ ConfigToken # <<>>
        => /\ Constructed
           /\ IsStripped(cred.fields.base_url, ConfigUrl)
           /\ IsApiBase(cred.fields.api_base, cred.fields.base_url)

\* C22, amended: for every pair of a URL that holds something else than
\* slashes and a non-empty token, construction succeeds, base_url is the URL
\* without all of its trailing slashes, and api_base is base_url followed by
\* /api/v1 with exactly one slash at the join; a URL made of slashes only is
\* refused like an empty one.
C22_StripsTrailingSlashes ==
    Resolved /\ ConfigUrl # <<>> /\ ConfigToken # <<>>
        => IF \E i \in 1..Len(ConfigUrl) : ConfigUrl[i] # "/"
           THEN /\ Constructed
                /\ IsStripped(cred.fields.base_url, ConfigUrl)
                /\ cred.fields.base_url # <<>>
                /\ cred.fields.token = ConfigToken
                /\ IsApiBase(cred.fields.api_base, cred.fields.base_url)
           ELSE /\ ConstructionFailed
                /\ cred.out.exc = "ValueError"
                /\ "VIKUNJA_URL" \in cred.out.names

\* A client built from a URL that ended in two slashes.
C22_Witness ==
    /\ Constructed /\ constructed
    /\ ConfigUrl = <<"env-url", "/", "/">>
    /\ cred.fields.base_url = <<"env-url">>
    /\ cred.fields.api_base = <<"env-url", "/", "api", "/", "v1">>

\* --------------------------------------------------------- error messages
\* r holds the piece x.
Holds(r, x) == \E i \in 1..Len(r) : r[i] = x

Unclassified(e) ==
    ~isinstance(e, "HTTPStatusError") /\ ~isinstance(e, "RequestError")
IsUnexpectedMessage(r, e) ==
    Len(r) = 3 /\ r[1] = "Error:" /\ r[2] = "Unexpected error occurred -"
               /\ r[3] = e.exc

InRequest(t) == op[t] = "request" /\ pc[t] \in {"inflight", "sleep"}
RequestOver(t) == op[t] = "request" /\ pc[t] = "done"

\* The two ends of a call: a value of a 2xx response, or the exception that
\* the last attempt ended with.
Success(t) ==
    /\ result[t].kind = "return"
    /\ last[t].kind = "response" /\ ~is_error(last[t])
TerminalFailure(t) ==
    /\ result[t].kind = "raise"
    /\ last[t] \in Outcomes \cup {ClosedOutcome}

\* `raise RuntimeError("Request failed after all retries")`: the exception
\* that no attempt raised.
TrailingError(t) ==
    /\ result[t].kind = "raise" /\ result[t].exc = "RuntimeError"
    /\ last[t] = NoOutcome

\* C24: when every attempt and every sleep returns, each request call ends,
\* and it ends either with a returned value (Success) or with the exception
\* of an attempt (TerminalFailure), never both and never with the trailing
\* RuntimeError "Request failed after all retries".
C24_RequestTerminates ==
    /\ [](\A t \in Tasks :
            RequestOver(t)
                => /\ Success(t) # TerminalFailure(t)
                   /\ ~TrailingError(t))
    /\ \A t \in Tasks : InRequest(t) ~> RequestOver(t)

\* A call that gave up on its third 429, next to a call that is asleep.
C24_Witness ==
    /\ RequestOver(1) /\ result[1] = Raised("HTTPStatusError", 429)
    /\ last[1].status = 429
    /\ InRequest(2) /\ pc[2] = "sleep" /\ attempt[2] = 1

\* -------------------------------------------------------- the cached answer
\* C25: is_agent_available returns on every call the value its first call
\* computed: the cached value never changes once it is there, whatever the
\* agent's health does, and every construction that asks takes the branch of
\* that value.
C25_FirstAnswerKept ==
    /\ [](cache.filled /\ cred.call = "__init__" /\ env.OPENBAO_AVAILABLE
            => cred.branch = branch_of(cache.value))
    /\ [][cache.filled => cache'.filled /\ cache'.value = cache.value]_vars

\* A second construction took the agent branch on the first call's answer
\* while the agent was down.
C25_Witness ==
    /\ cache.filled /\ cache.calls = 2
    /\ cache.value /\ ~cache.seen /\ ~env.healthy
    /\ cred.call = "__init__" /\ cred.branch = "agent"

\* ------------------------------------------------------ the optional token
\* C26: get_mcp_token called with required=False never raises: whatever the
\* agent read ends with (success, secret missing, key missing, non-200
\* status, connection refused, timeout), it returns the token or None.
C26_NotRequiredNeverRaises ==
    cred.call = "get_mcp_token" /\ ~cred.required
        => /\ cred.out.kind = "return"
           /\ cred.out.value = Missing \/ truthy(cred.out.value)

C28_NoLeak ==
    \A c \in 1..nConns : c # _client => c \in connClosed

\* --------------------------------------------------- concurrent reminders
Succeeded(t) ==
    /\ tool[t].handler = "vikunja_add_reminder"
    /\ tool[t].step = "returned" /\ ~tool[t].raised
Stored(r) == \E i \in 1..Len(server.reminders) : server.reminders[i] = r

\* C29: when two vikunja_add_reminder calls for the same task have both
\* returned success, the reminders the server stores for the task hold both
\* new reminders.
C29_NoLostReminder ==
    \A t, u \in Tasks :
        t # u /\ Succeeded(t) /\ Succeeded(u)
            => Stored(new_reminder(t)[1]) /\ Stored(new_reminder(u)[1])

\* ------------------------------------------------------------ task lists
Listed(t) ==
    /\ tool[t].handler \in ListHandlers
    /\ tool[t].step = "returned" /\ ~tool[t].raised

\* C30: when the API answers with a bare array, the three list handlers
\* take the length of the page as the total, so for every limit and every
\* offset >= 0 the pagination metadata says has_more = false and
\* next_offset = null, however many tasks the server still holds.
C30_NeverHasMore ==
    \A t \in Tasks :
        Listed(t)
            => /\ tool[t].pagination.count = Len(tool[t].tasks)
               /\ tool[t].pagination.total = Len(tool[t].tasks)
               /\ tool[t].pagination.limit = tool[t].limit
               /\ tool[t].pagination.offset = tool[t].offset
               /\ ~tool[t].pagination.has_more
               /\ tool[t].pagination.next_offset = NoInt

\* vikunja_get_project_tasks returned the first two of five tasks and
\* reported that there are no more.
C30_Witness ==
    /\ Listed(Caller) /\ tool[Caller].handler = "vikunja_get_project_tasks"
    /\ server.tasks = 5 /\ tool[Caller].limit = 2 /\ tool[Caller].offset = 0
    /\ tool[Caller].tasks = <<1, 2>>
    /\ tool[Caller].pagination.total = 2
    /\ ~tool[Caller].pagination.has_more

====
